---- MODULE Spec2Model ----
(***************************************************************************)
(* daily_control_engine: the daily-planning pipelines of workflow.py (the  *)
(* morning and the night graph over one DailyState record) and the routing *)
(* of the two tool-calling agents of demo_checks/.                         *)
(*                                                                         *)
(* Strings are sequences of one-character strings, so that concatenation,  *)
(* ", ".join and startswith are computed, not assumed.  Python floats are  *)
(* IEEE-754 doubles: a 53-digit binary mantissa and an exponent.           *)
(***************************************************************************)
EXTENDS Integers, Sequences, FiniteSets, TLC

VARIABLES
    state,      \* the DailyState record the running graph works on
    graph,      \* "none", or the graph being invoked: "morning" / "night"
    node,       \* the node the graph runs next ("END" once it has finished)
    trace,      \* the nodes the current invocation has run, in order
    input,      \* the record as it was handed to invoke()
    day,        \* the caller's position in its day ("any": no fixed order)
    agent,      \* which agent graph: "calendar" / "github"
    tools,      \* TRUE iff get_tools() returned a non-empty tool list
    anode,      \* the node the agent graph runs next
    messages,   \* the agent's message list
    astate,     \* the GitHub agent's other State keys
    atrace      \* the agent nodes run by the current invocation, in order

dailyVars == <<state, graph, node, trace, input, day>>
agentVars == <<agent, tools, anode, messages, astate, atrace>>
vars == <<state, graph, node, trace, input, day,
          agent, tools, anode, messages, astate, atrace>>

-----------------------------------------------------------------------------
(* Bounds of the model *)

MaxTasks == 6           \* longest tasks list handed to the morning graph
MaxCompleted == 3       \* most entries the caller appends to completed_tasks
MaxSelected == 67       \* longest selected_tasks handed to the night graph
MaxDone == 68           \* longest completed_tasks handed to the night graph
MaxSteps == 7           \* most chatbot replies that ask for tools in one run
MaxToolCalls == 2       \* most tool calls carried by one reply

-----------------------------------------------------------------------------
(* Strings and lists *)

Min(a, b) == IF a < b THEN a ELSE b

(* seq[:n] for n >= 0 *)
Slice(seq, n) == SubSeq(seq, 1, Min(n, Len(seq)))

(* sep.join(list) *)
RECURSIVE Join(_, _)
Join(sep, list) ==
    IF list = <<>> THEN <<>>
    ELSE IF Len(list) = 1 THEN list[1]
    ELSE list[1] \o sep \o Join(sep, Tail(list))

StartsWith(s, p) == Len(s) >= Len(p) /\ SubSeq(s, 1, Len(p)) = p

IsPrefix(p, s) == Len(p) <= Len(s) /\ \A i \in 1..Len(p) : p[i] = s[i]

(* "Focus deeply on: " *)
FocusPrefix ==
    <<"F","o","c","u","s"," ","d","e","e","p","l","y"," ","o","n",":"," ">>

(* ", " *)
Separator == <<",", " ">>

(* "Increase difficulty tommorow." *)
IncreaseMsg ==
    <<"I","n","c","r","e","a","s","e"," ",
      "d","i","f","f","i","c","u","l","t","y"," ",
      "t","o","m","m","o","r","o","w",".">>

(* "Maintain pace but reduce distractions." *)
MaintainMsg ==
    <<"M","a","i","n","t","a","i","n"," ","p","a","c","e"," ","b","u","t"," ",
      "r","e","d","u","c","e"," ",
      "d","i","s","t","r","a","c","t","i","o","n","s",".">>

(* "Reduce workload and eliminate distractions." *)
ReduceMsg ==
    <<"R","e","d","u","c","e"," ","w","o","r","k","l","o","a","d"," ",
      "a","n","d"," ","e","l","i","m","i","n","a","t","e"," ",
      "d","i","s","t","r","a","c","t","i","o","n","s",".">>

-----------------------------------------------------------------------------
(* Python float arithmetic: len(a) / len(b), x * 100 and round(x).         *)
(* A double is [m, e]: m the 53 mantissa digits, most significant first,   *)
(* and e the weight of the last digit, so the value is m * 2^e; zero has   *)
(* the empty mantissa.  Every operation rounds to nearest, ties to even.   *)

MantissaBits == 53

RECURSIVE Pow2(_)
Pow2(n) == IF n = 0 THEN 1 ELSE 2 * Pow2(n - 1)

(* 2^n mod d, by repeated squaring *)
RECURSIVE Pow2Mod(_, _)
Pow2Mod(n, d) ==
    IF n = 0 THEN 1 % d
    ELSE LET h == Pow2Mod(n \div 2, d)
             q == (h * h) % d
         IN IF n % 2 = 0 THEN q ELSE (2 * q) % d

(* the largest j with s * 2^j <= c, for c >= s > 0 *)
RECURSIVE ShiftDown(_, _, _)
ShiftDown(c, s, j) == IF s * Pow2(j + 1) <= c THEN ShiftDown(c, s, j + 1) ELSE j

(* the smallest j with c * 2^j >= s, for c > 0 *)
RECURSIVE ShiftUp(_, _, _)
ShiftUp(c, s, j) == IF c * Pow2(j) >= s THEN j ELSE ShiftUp(c, s, j + 1)

AllZero(bits) == \A i \in 1..Len(bits) : bits[i] = 0

(* bits + 1 in the same number of digits, with the carry out *)
Incr(bits) ==
    IF \A i \in 1..Len(bits) : bits[i] = 1
    THEN [bits |-> [i \in 1..Len(bits) |-> 0], carry |-> 1]
    ELSE LET k == CHOOSE i \in 1..Len(bits) :
                     bits[i] = 0 /\ \A j \in (i + 1)..Len(bits) : bits[j] = 1
         IN [bits  |-> [i \in 1..Len(bits) |->
                          IF i < k THEN bits[i] ELSE IF i = k THEN 1 ELSE 0],
             carry |-> 0]

(* the mantissa hi, rounded up or not; exp is the weight of its last digit *)
RoundBits(hi, roundUp, exp) ==
    IF ~roundUp THEN [m |-> hi, e |-> exp]
    ELSE LET r == Incr(hi)
         IN IF r.carry = 1
            THEN [m |-> <<1>> \o SubSeq(r.bits, 1, Len(hi) - 1), e |-> exp + 1]
            ELSE [m |-> r.bits, e |-> exp]

Zero == [m |-> <<>>, e |-> 0]

(* c / s for integers c >= 0, s > 0: true division *)
FDiv(c, s) ==
    IF c = 0 THEN Zero
    ELSE LET up   == c < s
             j    == IF up THEN ShiftUp(c, s, 0) ELSE ShiftDown(c, s, 0)
             num  == IF up THEN c * Pow2(j) ELSE c
             den  == IF up THEN s ELSE s * Pow2(j)
             \* the remainder left after i quotient digits of num / den
             Rem(i) == ((num % den) * Pow2Mod(i - 1, den)) % den
             bits == [i \in 1..MantissaBits |->
                        IF i = 1 THEN 1
                        ELSE IF 2 * Rem(i - 1) >= den THEN 1 ELSE 0]
             last == Rem(MantissaBits)
             expo == (IF up THEN 0 - j ELSE j) - (MantissaBits - 1)
             rup  == \/ 2 * last > den
                     \/ 2 * last = den /\ bits[MantissaBits] = 1
         IN RoundBits(bits, rup, expo)

RECURSIVE BitsNat(_)
BitsNat(bits) ==
    IF bits = <<>> THEN 0
    ELSE 2 * BitsNat(SubSeq(bits, 1, Len(bits) - 1)) + bits[Len(bits)]

(* the n lowest binary digits of v, most significant first *)
NatBits(v, n) == [i \in 1..n |-> (v \div Pow2(n - i)) % 2]

(* the number of significant binary digits of v *)
RECURSIVE BitLen(_)
BitLen(v) == IF v = 0 THEN 0 ELSE 1 + BitLen(v \div 2)

(* the exact product bits * k, in limbs of 12 digits from the least
   significant; limb * k + carry stays far below 2^31 *)
RECURSIVE MulLimbs(_, _, _, _)
MulLimbs(bits, k, carry, acc) ==
    IF bits = <<>> THEN NatBits(carry, BitLen(carry)) \o acc
    ELSE LET n    == Len(bits)
             w    == Min(n, 12)
             limb == BitsNat(SubSeq(bits, n - w + 1, n))
             t    == limb * k + carry
         IN MulLimbs(SubSeq(bits, 1, n - w), k, t \div Pow2(w),
                     NatBits(t % Pow2(w), w) \o acc)

(* x * k for a double x and an integer k > 0 *)
FMul(x, k) ==
    IF x.m = <<>> THEN Zero
    ELSE LET p    == MulLimbs(x.m, k, 0, <<>>)
             drop == Len(p) - MantissaBits
             hi   == SubSeq(p, 1, MantissaBits)
             lo   == SubSeq(p, MantissaBits + 1, Len(p))
             rup  == /\ drop > 0
                     /\ lo[1] = 1
                     /\ \/ ~AllZero(Tail(lo))
                        \/ hi[MantissaBits] = 1
         IN RoundBits(hi, rup, x.e + drop)

(* round(x) of a non-negative double: the nearest integer, ties to even *)
PyRound(x) ==
    IF x.m = <<>> THEN 0
    ELSE LET nint == Len(x.m) + x.e
         IN IF x.e >= 0 THEN BitsNat(x.m) * Pow2(x.e)
            ELSE IF nint < 0 THEN 0
            ELSE LET hi == SubSeq(x.m, 1, nint)
                     lo == SubSeq(x.m, nint + 1, Len(x.m))
                     i  == BitsNat(hi)
                 IN IF lo[1] = 0 THEN i
                    ELSE IF ~AllZero(Tail(lo)) THEN i + 1
                    ELSE IF i % 2 = 1 THEN i + 1 ELSE i

-----------------------------------------------------------------------------
(* workflow.py: the nodes *)

(* score_tasks with the energy test off by one: energy <= 5 *)
score_tasks_le(st) ==
    LET energy == st.energy_level
        tasks  == st.tasks
    IN IF energy <= 5
       THEN [st EXCEPT !.selected_tasks = Slice(tasks, 2)]
       ELSE [st EXCEPT !.selected_tasks = Slice(tasks, 5)]

score_tasks(st) ==
    LET energy == st.energy_level
        tasks  == st.tasks
    IN IF energy < 5
       THEN [st EXCEPT !.selected_tasks = Slice(tasks, 2)]
       ELSE [st EXCEPT !.selected_tasks = Slice(tasks, 5)]

(* limit_to_3_tasks keeping the last three entries: selected_tasks[-3:] *)
limit_to_3_tasks_last(st) ==
    LET sel == st.selected_tasks
    IN [st EXCEPT !.selected_tasks =
                     SubSeq(sel, Len(sel) - Min(3, Len(sel)) + 1, Len(sel))]

(* limit_to_3_tasks truncating in place a list that tasks aliases *)
limit_to_3_tasks_inplace(st) ==
    [st EXCEPT !.selected_tasks = Slice(st.selected_tasks, 3),
               !.tasks = Slice(st.tasks, 3)]

limit_to_3_tasks(st) ==
    [st EXCEPT !.selected_tasks = Slice(st.selected_tasks, 3)]

generate_plan(st) ==
    [st EXCEPT !.suggestion = FocusPrefix \o Join(Separator, st.selected_tasks)]

(* analyze_performance with the score clamped to 100 *)
analyze_performance_clamped(st) ==
    IF Len(st.selected_tasks) = 0
    THEN [st EXCEPT !.score = 0]
    ELSE LET completion_rate ==
                 FDiv(Len(st.completed_tasks), Len(st.selected_tasks))
         IN [st EXCEPT !.score = Min(100, PyRound(FMul(completion_rate, 100)))]

analyze_performance(st) ==
    IF Len(st.selected_tasks) = 0
    THEN [st EXCEPT !.score = 0]
    ELSE LET completion_rate ==
                 FDiv(Len(st.completed_tasks), Len(st.selected_tasks))
         IN [st EXCEPT !.score = PyRound(FMul(completion_rate, 100))]

(* suggest_improvement with the first test widened to score >= 100 *)
suggest_improvement_ge(st) ==
    LET score == st.score
    IN IF score >= 100 THEN [st EXCEPT !.suggestion = IncreaseMsg]
       ELSE IF score >= 60 THEN [st EXCEPT !.suggestion = MaintainMsg]
       ELSE [st EXCEPT !.suggestion = ReduceMsg]

suggest_improvement(st) ==
    LET score == st.score
    IN IF score = 100 THEN [st EXCEPT !.suggestion = IncreaseMsg]
       ELSE IF score >= 60 THEN [st EXCEPT !.suggestion = MaintainMsg]
       ELSE [st EXCEPT !.suggestion = ReduceMsg]

(* workflow.py: the edges of the two graphs *)

(* the morning graph with generate_plan wired before limit_to_3_tasks *)
morning_graph_plan_first ==
    { <<"START", "score_tasks">>,
      <<"score_tasks", "generate_plan">>,
      <<"generate_plan", "limit_to_3_tasks">>,
      <<"limit_to_3_tasks", "END">> }

(* the morning graph with the edge into limit_to_3_tasks left out *)
morning_graph_skip ==
    { <<"START", "score_tasks">>,
      <<"score_tasks", "generate_plan">>,
      <<"generate_plan", "END">> }

morning_graph ==
    { <<"START", "score_tasks">>,
      <<"score_tasks", "limit_to_3_tasks">>,
      <<"limit_to_3_tasks", "generate_plan">>,
      <<"generate_plan", "END">> }

(* the night graph ending right after analyze_performance *)
night_graph_short ==
    { <<"START", "analyze_performance">>,
      <<"analyze_performance", "END">> }

night_graph ==
    { <<"START", "analyze_performance">>,
      <<"analyze_performance", "suggest_improvement">>,
      <<"suggest_improvement", "END">> }

Edges(g) == IF g = "morning" THEN morning_graph ELSE night_graph

Successors(g, n) == { e[2] : e \in { d \in Edges(g) : d[1] = n } }

-----------------------------------------------------------------------------
(* The records handed to the graphs *)

EnergyLevels == {-3, 0, 4, 5, 9}

(* "A", "Gym", "", "A" again, "B, C" *)
TaskNames == << <<"A">>, <<"G","y","m">>, <<>>, <<"A">>, <<"B",","," ","C">> >>

TaskAt(i) == TaskNames[((i - 1) % Len(TaskNames)) + 1]

TaskLists == { [i \in 1..n |-> TaskAt(i)] : n \in 0..MaxTasks }

(* what an earlier run or the caller may have left in selected_tasks *)
StaleSelected == { <<>>, << <<"Z">>, <<"Y">>, <<"X">>, <<"W">> >> }

CompletedNames == { <<"A">>, <<"X">> }

Repeat(x, n) == [i \in 1..n |-> x]

(* any record: the graphs accept whatever the caller passes *)
Init ==
    /\ state \in [ energy_level    : EnergyLevels,
                   sleep_hours     : {"7.5"},
                   tasks           : TaskLists,
                   selected_tasks  : StaleSelected,
                   completed_tasks : {<<>>},
                   distractions    : {<< <<"p","h","o","n","e">> >>},
                   score           : {0, 120},
                   suggestion      : {MaintainMsg} ]
    /\ graph = "none"
    /\ node = "START"
    /\ trace = <<>>
    /\ input = state
    /\ day = "any"
    /\ agent = "calendar"
    /\ tools = FALSE
    /\ anode = "END"
    /\ messages = <<>>
    /\ astate = [discovery_done |-> TRUE, github_owner |-> "el-noir",
                 github_repo |-> "daily_control_engine"]
    /\ atrace = <<>>

(* workflow.py __main__: the record as constructed at the start of a day *)
InitDay ==
    /\ state \in [ energy_level    : EnergyLevels,
                   sleep_hours     : {"7.5"},
                   tasks           : TaskLists,
                   selected_tasks  : {<<>>},
                   completed_tasks : {<<>>},
                   distractions    : {<<>>},
                   score           : {0},
                   suggestion      : {<<>>} ]
    /\ graph = "none"
    /\ node = "START"
    /\ trace = <<>>
    /\ input = state
    /\ day = "new"
    /\ agent = "calendar"
    /\ tools = FALSE
    /\ anode = "END"
    /\ messages = <<>>
    /\ astate = [discovery_done |-> TRUE, github_owner |-> "el-noir",
                 github_repo |-> "daily_control_engine"]
    /\ atrace = <<>>

(* records with long selected_tasks and completed_tasks, for the night graph *)
InitScore ==
    /\ \E s \in 0..MaxSelected, c \in 0..MaxDone :
          state = [ energy_level    |-> 5,
                    sleep_hours     |-> "7.5",
                    tasks           |-> <<>>,
                    selected_tasks  |-> Repeat(<<"T">>, s),
                    completed_tasks |-> Repeat(<<"T">>, c),
                    distractions    |-> <<>>,
                    score           |-> 0,
                    suggestion      |-> <<>> ]
    /\ graph = "none"
    /\ node = "START"
    /\ trace = <<>>
    /\ input = state
    /\ day = "any"
    /\ agent = "calendar"
    /\ tools = FALSE
    /\ anode = "END"
    /\ messages = <<>>
    /\ astate = [discovery_done |-> TRUE, github_owner |-> "el-noir",
                 github_repo |-> "daily_control_engine"]
    /\ atrace = <<>>

-----------------------------------------------------------------------------
(* The caller and the graph runs *)

(* morning_graph.invoke(state) *)
InvokeMorning ==
    /\ graph = "none"
    /\ day \in {"any", "new"}
    /\ graph' = "morning"
    /\ node' \in Successors("morning", "START")
    /\ trace' = <<>>
    /\ input' = state
    /\ day' = IF day = "new" THEN "planned" ELSE day
    /\ UNCHANGED state
    /\ UNCHANGED agentVars

(* night_graph.invoke(state) *)
InvokeNight ==
    /\ graph = "none"
    /\ day \in {"any", "planned"}
    /\ graph' = "night"
    /\ node' \in Successors("night", "START")
    /\ trace' = <<>>
    /\ input' = state
    /\ day' = IF day = "planned" THEN "over" ELSE day
    /\ UNCHANGED state
    /\ UNCHANGED agentVars

(* a graph runs the node whose turn it is and follows the node's edge *)
ScoreTasks ==
    /\ graph = "morning"
    /\ node = "score_tasks"
    /\ state' = score_tasks(state)
    /\ node' \in Successors("morning", "score_tasks")
    /\ trace' = Append(trace, "score_tasks")
    /\ UNCHANGED <<graph, input, day>>
    /\ UNCHANGED agentVars

LimitTo3Tasks ==
    /\ graph = "morning"
    /\ node = "limit_to_3_tasks"
    /\ state' = limit_to_3_tasks(state)
    /\ node' \in Successors("morning", "limit_to_3_tasks")
    /\ trace' = Append(trace, "limit_to_3_tasks")
    /\ UNCHANGED <<graph, input, day>>
    /\ UNCHANGED agentVars

GeneratePlan ==
    /\ graph = "morning"
    /\ node = "generate_plan"
    /\ state' = generate_plan(state)
    /\ node' \in Successors("morning", "generate_plan")
    /\ trace' = Append(trace, "generate_plan")
    /\ UNCHANGED <<graph, input, day>>
    /\ UNCHANGED agentVars

AnalyzePerformance ==
    /\ graph = "night"
    /\ node = "analyze_performance"
    /\ state' = analyze_performance(state)
    /\ node' \in Successors("night", "analyze_performance")
    /\ trace' = Append(trace, "analyze_performance")
    /\ UNCHANGED <<graph, input, day>>
    /\ UNCHANGED agentVars

SuggestImprovement ==
    /\ graph = "night"
    /\ node = "suggest_improvement"
    /\ state' = suggest_improvement(state)
    /\ node' \in Successors("night", "suggest_improvement")
    /\ trace' = Append(trace, "suggest_improvement")
    /\ UNCHANGED <<graph, input, day>>
    /\ UNCHANGED agentVars

(* invoke() returns the record to the caller *)
Return ==
    /\ graph # "none"
    /\ node = "END"
    /\ graph' = "none"
    /\ node' = "START"
    /\ trace' = <<>>
    /\ input' = state
    /\ UNCHANGED <<state, day>>
    /\ UNCHANGED agentVars

(* between the runs the caller records a completed task *)
AppendCompleted ==
    /\ graph = "none"
    /\ day \in {"any", "planned"}
    /\ Len(state.completed_tasks) < MaxCompleted
    /\ \E e \in CompletedNames :
          state' = [state EXCEPT !.completed_tasks = Append(@, e)]
    /\ input' = state'
    /\ UNCHANGED <<graph, node, trace, day>>
    /\ UNCHANGED agentVars

Next ==
    \/ InvokeMorning
    \/ ScoreTasks
    \/ LimitTo3Tasks
    \/ GeneratePlan
    \/ InvokeNight
    \/ AnalyzePerformance
    \/ SuggestImprovement
    \/ Return
    \/ AppendCompleted

Spec == Init /\ [][Next]_vars

SpecDay == InitDay /\ [][Next]_vars

SpecScore == InitScore /\ [][Next]_vars

-----------------------------------------------------------------------------
(* demo_checks/: the two agent graphs.  A message is [type, tool_calls];   *)
(* only an "ai" message has the tool_calls attribute.                      *)

Last(seq) == seq[Len(seq)]

HumanMessage == [type |-> "human", tool_calls |-> <<>>]

AIMessage(calls) == [type |-> "ai", tool_calls |-> calls]

ToolMessage == [type |-> "tool", tool_calls |-> <<>>]

(* the tool calls one reply can carry *)
ToolCalls == { Repeat("call", n) : n \in 0..MaxToolCalls }

(* should_continue with the test inverted *)
should_continue_calendar_inverted(msgs) ==
    LET last_message == Last(msgs)
    IN IF last_message.tool_calls # <<>> THEN "END" ELSE "tools"

(* mcp_calendar_agent.py: should_continue *)
should_continue_calendar(msgs) ==
    LET last_message == Last(msgs)
    IN IF last_message.tool_calls # <<>> THEN "tools" ELSE "END"

(* mcp_github_agent.py: should_continue *)
should_continue_github(msgs) ==
    LET last_message == Last(msgs)
    IN IF last_message.type = "ai" /\ last_message.tool_calls # <<>>
       THEN "tools" ELSE "END"

should_continue(a, msgs) ==
    IF a = "github" THEN should_continue_github(msgs)
    ELSE should_continue_calendar(msgs)

(* the plain edges create_agent() adds; chatbot's conditional edge is apart *)
calendar_edges(t) ==
    IF t THEN { <<"START", "chatbot">>, <<"tools", "chatbot">> }
    ELSE { <<"START", "chatbot">>, <<"chatbot", "END">> }

github_edges(t) ==
    IF t THEN { <<"START", "discovery">>, <<"discovery", "chatbot">>,
                <<"tools", "chatbot">> }
    ELSE { <<"START", "chatbot">>, <<"chatbot", "END">> }

AgentEdges(a, t) == IF a = "github" THEN github_edges(t) ELSE calendar_edges(t)

AgentSuccessors(a, t, n) ==
    { e[2] : e \in { d \in AgentEdges(a, t) : d[1] = n } }

(* where the graph goes after chatbot left msgs *)
AfterChatbot(a, t, msgs) ==
    IF t THEN {should_continue(a, msgs)} ELSE AgentSuccessors(a, t, "chatbot")

(* mcp_github_agent.py: discovery_handler *)
discovery_handler(st) ==
    [st EXCEPT !.github_owner = "el-noir",
               !.github_repo = "daily_control_engine",
               !.discovery_done = TRUE]

(* the replies so far that asked for tools *)
Asked(msgs) ==
    Cardinality({ i \in 1..Len(msgs) :
                    msgs[i].type = "ai" /\ msgs[i].tool_calls # <<>> })

(* run_chat(): one agent.astream() on the user's message *)
InitAgent ==
    /\ agent \in {"calendar", "github"}
    /\ tools \in BOOLEAN
    /\ anode = "START"
    /\ messages = <<HumanMessage>>
    /\ astate \in [ discovery_done : {TRUE},
                    github_owner   : {"el-noir", "other"},
                    github_repo    : {"daily_control_engine"} ]
    /\ atrace = <<>>
    /\ state = [ energy_level    |-> 7,
                 sleep_hours     |-> "7.5",
                 tasks           |-> <<>>,
                 selected_tasks  |-> <<>>,
                 completed_tasks |-> <<>>,
                 distractions    |-> <<>>,
                 score           |-> 0,
                 suggestion      |-> <<>> ]
    /\ graph = "none"
    /\ node = "START"
    /\ trace = <<>>
    /\ input = state
    /\ day = "any"

(* the graph enters at START's edge *)
AgentStart ==
    /\ anode = "START"
    /\ anode' \in AgentSuccessors(agent, tools, "START")
    /\ UNCHANGED <<agent, tools, messages, astate, atrace>>
    /\ UNCHANGED dailyVars

Discovery ==
    /\ anode = "discovery"
    /\ astate' = discovery_handler(astate)
    /\ anode' \in AgentSuccessors(agent, tools, "discovery")
    /\ atrace' = Append(atrace, [node |-> "discovery", calls |-> 0])
    /\ UNCHANGED <<agent, tools, messages>>
    /\ UNCHANGED dailyVars

(* chatbot: the model's reply is appended; only a model bound to tools can
   ask for them *)
Chatbot ==
    /\ anode = "chatbot"
    /\ \E calls \in ToolCalls :
          /\ calls # <<>> => tools /\ Asked(messages) < MaxSteps
          /\ messages' = Append(messages, AIMessage(calls))
          /\ atrace' = Append(atrace, [node |-> "chatbot", calls |-> Len(calls)])
    /\ anode' \in AfterChatbot(agent, tools, messages')
    /\ UNCHANGED <<agent, tools, astate>>
    /\ UNCHANGED dailyVars

(* ToolNode: one ToolMessage per tool call of the last message *)
Tools ==
    /\ anode = "tools"
    /\ messages' = messages \o Repeat(ToolMessage, Len(Last(messages).tool_calls))
    /\ anode' \in AgentSuccessors(agent, tools, "tools")
    /\ atrace' = Append(atrace, [node |-> "tools", calls |-> 0])
    /\ UNCHANGED <<agent, tools, astate>>
    /\ UNCHANGED dailyVars

NextAgent ==
    \/ AgentStart
    \/ Discovery
    \/ Chatbot
    \/ Tools

SpecAgent == InitAgent /\ [][NextAgent]_vars

(* morning_graph.invoke() is one synchronous call: once it has started, the
   morning node whose turn it is runs.  Nothing is assumed of the caller or
   of the night graph. *)
FairSpec ==
    /\ Init
    /\ [][Next]_vars
    /\ WF_vars(ScoreTasks)
    /\ WF_vars(LimitTo3Tasks)
    /\ WF_vars(GeneratePlan)

-----------------------------------------------------------------------------
(* Properties *)

MorningDone == graph = "morning" /\ node = "END"

NightDone == graph = "night" /\ node = "END"

MorningOrder == <<"score_tasks", "limit_to_3_tasks", "generate_plan">>

NightOrder == <<"analyze_performance", "suggest_improvement">>

Fields == DOMAIN state

(* a and b agree on every field outside changed *)
Frame(changed, a, b) == \A f \in Fields \ changed : a[f] = b[f]

(* n / d rounded to the nearest integer, ties to the even one, in exact
   integer arithmetic (n >= 0, d > 0) *)
RoundHalfEven(n, d) ==
    LET q == n \div d
        r == n % d
    IN IF 2 * r > d THEN q + 1
       ELSE IF 2 * r < d THEN q
       ELSE IF q % 2 = 1 THEN q + 1 ELSE q

(* C1: when the morning pipeline has completed, selected_tasks is a prefix
   of tasks (same entries, same order, from the first entry) of at most 3
   entries, whatever selected_tasks held before the run. *)
C1_SelectedIsPrefix ==
    MorningDone =>
        /\ IsPrefix(state.selected_tasks, state.tasks)
        /\ IsPrefix(state.selected_tasks, input.tasks)
        /\ Len(state.selected_tasks) <= 3

C1_Witness ==
    /\ MorningDone
    /\ Len(input.selected_tasks) = 4
    /\ Len(input.tasks) >= 5
    /\ input.energy_level >= 5
    /\ Len(state.selected_tasks) = 3

(* C2: when the morning pipeline has completed, |selected_tasks| is
   min(2, |tasks|) for energy_level < 5 and min(3, |tasks|) for
   energy_level >= 5, also for an energy of 0 or below. *)
C2_SelectedCount ==
    MorningDone =>
        Len(state.selected_tasks) =
            IF input.energy_level < 5
            THEN Min(2, Len(input.tasks))
            ELSE Min(3, Len(input.tasks))

C2_Witness ==
    /\ MorningDone
    /\ input.energy_level < 0
    /\ Len(input.tasks) > 3
    /\ Len(state.selected_tasks) = 2

(* C3: when the morning pipeline has completed, suggestion is
   "Focus deeply on: " followed by the final selected_tasks joined with
   ", "; it starts with that prefix, is exactly the prefix when
   selected_tasks is empty, and for the selection "A", "Gym" it reads
   "Focus deeply on: A, Gym". *)
C3_SuggestionIsPlan ==
    MorningDone =>
        /\ state.suggestion = FocusPrefix \o Join(Separator, state.selected_tasks)
        /\ StartsWith(state.suggestion, FocusPrefix)
        /\ state.selected_tasks = <<>> => state.suggestion = FocusPrefix
        /\ state.selected_tasks = << <<"A">>, <<"G","y","m">> >> =>
              state.suggestion = FocusPrefix \o <<"A", ",", " ", "G", "y", "m">>
        /\ Len(state.selected_tasks) = 3 =>
              Len(state.suggestion) =
                  Len(FocusPrefix) + 4 + Len(state.selected_tasks[1])
                  + Len(state.selected_tasks[2]) + Len(state.selected_tasks[3])

C3_Witness ==
    /\ MorningDone
    /\ input.energy_level >= 5
    /\ Len(input.tasks) >= 5
    /\ Len(state.selected_tasks) = 3
    /\ state.suggestion =
          FocusPrefix \o <<"A", ",", " ", "G", "y", "m", ",", " ">>

(* C4: after analyze_performance, score is 0 when selected_tasks is empty
   and otherwise 100 * |completed_tasks| / |selected_tasks| rounded to the
   nearest integer, ties to even. *)
C4_ScoreIsRoundedPercentage ==
    (graph = "night" /\ trace # <<>>) =>
        state.score =
            IF Len(input.selected_tasks) = 0 THEN 0
            ELSE RoundHalfEven(100 * Len(input.completed_tasks),
                               Len(input.selected_tasks))

(* C5: the score is always in [0,100] over a day: construction, morning
   pipeline, the caller's appends, evening pipeline. *)
C5_ScoreInRange == 0 <= state.score /\ state.score <= 100

(* C5 as amended: over a day the score is never negative, it is at most 100
   whenever completed_tasks has no more entries than selected_tasks, and the
   evening pipeline leaves it above 100 when completed_tasks has more
   entries than a non-empty selected_tasks. *)
C5_ScoreRangeAmended ==
    /\ 0 <= state.score
    /\ Len(state.completed_tasks) <= Len(state.selected_tasks) =>
          state.score <= 100
    /\ (/\ graph = "night"
        /\ trace # <<>>
        /\ Len(state.selected_tasks) > 0
        /\ Len(state.completed_tasks) > Len(state.selected_tasks)) =>
          state.score > 100

C5_Witness ==
    /\ day = "over"
    /\ NightDone
    /\ Len(state.selected_tasks) = 2
    /\ Len(state.completed_tasks) = 3
    /\ state.score = 150

(* C6: when the evening pipeline has completed, the suggestion is decided by
   the score alone: 100 gives "Increase difficulty tommorow.", any other
   score of 60 or more (also above 100) gives "Maintain pace but reduce
   distractions.", a score below 60 gives "Reduce workload and eliminate
   distractions."; the three texts differ. *)
C6_SuggestionByScore ==
    /\ IncreaseMsg # MaintainMsg
    /\ IncreaseMsg # ReduceMsg
    /\ MaintainMsg # ReduceMsg
    /\ NightDone =>
          /\ state.score = 100 => state.suggestion = IncreaseMsg
          /\ (state.score >= 60 /\ state.score # 100) =>
                state.suggestion = MaintainMsg
          /\ state.score < 60 => state.suggestion = ReduceMsg

C6_Witness ==
    /\ NightDone
    /\ state.score = 120
    /\ state.suggestion = MaintainMsg

(* C7: a run of the morning pipeline executes score_tasks, limit_to_3_tasks
   and generate_plan, each once and in that order, and then reaches the end;
   every run that starts reaches the end. *)
C7_MorningRunsThreeStages ==
    /\ [](graph = "morning" =>
            /\ IsPrefix(trace, MorningOrder)
            /\ node = "END" <=> trace = MorningOrder
            /\ node # "END" => node = MorningOrder[Len(trace) + 1])
    /\ (graph = "morning") ~> MorningDone

C7_Witness ==
    /\ MorningDone
    /\ input.tasks = <<>>
    /\ trace = MorningOrder

(* C8: a run of the evening pipeline executes analyze_performance and then
   suggest_improvement, two steps, and when selected_tasks is empty it ends
   with score 0 and "Reduce workload and eliminate distractions.", whatever
   completed_tasks holds and whatever suggestion was there before. *)
C8_NightRunsTwoStages ==
    /\ graph = "night" =>
          /\ IsPrefix(trace, NightOrder)
          /\ node = "END" <=> trace = NightOrder
          /\ node # "END" => node = NightOrder[Len(trace) + 1]
    /\ (NightDone /\ input.selected_tasks = <<>>) =>
          /\ state.score = 0
          /\ state.suggestion = ReduceMsg

C8_Witness ==
    /\ NightDone
    /\ input.selected_tasks = <<>>
    /\ input.completed_tasks # <<>>
    /\ input.suggestion = FocusPrefix
    /\ state.suggestion = ReduceMsg

(* the field a stage sets *)
StageField(n) ==
    IF n \in {"score_tasks", "limit_to_3_tasks"} THEN {"selected_tasks"}
    ELSE IF n = "analyze_performance" THEN {"score"}
    ELSE {"suggestion"}

(* C9: the morning pipeline changes no field but selected_tasks and
   suggestion, the evening pipeline none but score and suggestion, and each
   stage changes no field but the one it sets. *)
C9_FrameOfPipelines ==
    /\ [](graph = "morning" =>
            Frame({"selected_tasks", "suggestion"}, input, state))
    /\ [](graph = "night" => Frame({"score", "suggestion"}, input, state))
    /\ [][(graph # "none" /\ trace' = Append(trace, node)) =>
            Frame(StageField(node), state, state')]_vars

C9_Witness ==
    /\ NightDone
    /\ state.score # input.score
    /\ state.suggestion # input.suggestion
    /\ StartsWith(input.suggestion, FocusPrefix)
    /\ input.selected_tasks # <<>>
    /\ input.completed_tasks # <<>>

(* the nodes of atrace, without the replies' tool-call counts *)
ANodes == [i \in 1..Len(atrace) |-> atrace[i].node]

(* what follows entry i of atrace: the next entry, or the node due next *)
Following(i) == IF i < Len(atrace) THEN atrace[i + 1].node ELSE anode

(* C10: with a non-empty tool list a run ends only right after a chatbot
   reply without tool calls, a reply with tool calls is followed by tools,
   tools is followed by chatbot, and the GitHub agent runs discovery once,
   first; with an empty tool list the run is one chatbot step and then the
   end, and tools never runs. *)
C10_AgentRouting ==
    /\ tools =>
          /\ anode = "END" =>
                /\ atrace # <<>>
                /\ Last(atrace).node = "chatbot"
                /\ Last(atrace).calls = 0
                /\ Last(messages).type = "ai"
                /\ Last(messages).tool_calls = <<>>
          /\ \A i \in 1..Len(atrace) :
                /\ (atrace[i].node = "chatbot" /\ atrace[i].calls > 0) =>
                      Following(i) = "tools"
                /\ (atrace[i].node = "chatbot" /\ atrace[i].calls = 0) =>
                      (i = Len(atrace) /\ anode = "END")
                /\ atrace[i].node = "tools" => Following(i) = "chatbot"
                /\ atrace[i].node = "discovery" <=> (agent = "github" /\ i = 1)
    /\ ~tools =>
          /\ ANodes \in {<<>>, <<"chatbot">>}
          /\ ANodes = <<"chatbot">> <=> anode = "END"
          /\ anode # "tools"

C10_Witness ==
    /\ tools
    /\ agent = "github"
    /\ anode = "END"
    /\ ANodes = <<"discovery", "chatbot", "tools", "chatbot", "tools", "chatbot">>

====
